---- MODULE Spec2Model ----
(***************************************************************************)
(* A model of src/index.js: interned Points, the region classes            *)
(* (BoundingRect, BoundingGroup, NullBoundingBox), Sprite, Layer,          *)
(* Background and Canvas, and the drawing context the Canvas paints on.    *)
(*                                                                         *)
(* Three specifications share the variables:                               *)
(*   SpecGeom    the Point cache and the region classes, with object       *)
(*               identity modelled explicitly (points, out);               *)
(*   Spec        a scene of layers and sprites that the driver moves and   *)
(*               draws (scene, sprites, ctx, out).  Here a Point is        *)
(*               represented by its coordinates;                           *)
(*   SpecFrames  the scenes over a Background drawn frame by frame onto    *)
(*               the canvas element's pixels (surface, history).           *)
(***************************************************************************)
EXTENDS Integers, Sequences, FiniteSets, TLC

VARIABLES
    points,     \* Point.points: x -> (y -> Point instance)
    scene,      \* the Canvas: its layers, each a list of objects and a blend mode
    sprites,    \* the Sprite instances: pixels, palette, _origin, stale, lastBoundingBox
    ctx,        \* the 2d context: globalCompositeOperation, fillStyle
    out,        \* the last call: its arguments, what it returned or that it threw
    surface,    \* the canvas element's pixels: coordinate -> colour (SpecFrames)
    history     \* per sprite: origin at the last draw, moves since (SpecFrames)

vars == <<points, scene, sprites, ctx, out, surface, history>>

\* ------------------------------------------------------------------ bounds

\* SpecGeom constructs Points with 0 <= x <= MaxPX and 0 <= y <= MaxPY.
MaxPX == 2
MaxPY == 1
\* Spec moves sprites to origins with 0 <= x <= MaxX and 0 <= y <= MaxY.
MaxX == 1
MaxY == 1

\* ------------------------------------------------------------ JS values

Undefined == "undefined"
False == "false"
Transparent == "transparent"
SourceOver == "source-over"

\* JS truthiness of the values a getPixel can return (colour strings, false, undefined).
Truthy(v) == v \notin {Undefined, False}

\* a || b
OrElse(a, b) == IF Truthy(a) THEN a ELSE b

\* The outcome of a call: a returned value, or a thrown TypeError.
Return(v) == [threw |-> FALSE, val |-> v]
Throw == [threw |-> TRUE, val |-> "TypeError"]

Range(f) == {f[i] : i \in DOMAIN f}

\* ------------------------------------------------------ imported helpers

\* lodash.range(start, end): a step of 1 when start < end and of -1 otherwise,
\* up to but not including end.
range(start, end) ==
    IF start < end
        THEN [i \in 1..(end - start) |-> start + (i - 1)]
        ELSE [i \in 1..(start - end) |-> start - (i - 1)]

\* @quarterto/flatmap over already mapped lists: the concatenation.
RECURSIVE flatMap(_)
flatMap(lists) ==
    IF lists = <<>> THEN <<>> ELSE Head(lists) \o flatMap(Tail(lists))

\* The elements of a list in order of first occurrence, each once.
RECURSIVE uniq(_, _)
uniq(list, seen) ==
    IF list = <<>> THEN <<>>
    ELSE IF Head(list) \in seen THEN uniq(Tail(list), seen)
    ELSE <<Head(list)>> \o uniq(Tail(list), seen \cup {Head(list)})

\* @quarterto/flat-map-uniq over already mapped lists: the concatenation without
\* repeated elements (elements compared by identity).
flatMapUniq(lists) == uniq(flatMap(lists), {})

\* ------------------------------------------------- Point (with identity)

\* A Point instance is named by its fields and a number n that tells apart
\* distinct objects with equal fields.
Instance(x, y, n) == [x |-> x, y |-> y, n |-> n]

\* The object a constructor call allocates: distinct from every live object.
Alloc(live, x, y) ==
    Instance(x, y, CHOOSE n \in 0..Cardinality(live) :
                 /\ Instance(x, y, n) \notin live
                 /\ \A m \in 0..(n - 1) : Instance(x, y, m) \in live)

\* The instances the cache holds.
Cached(pts) == UNION {Range(pts[x]) : x \in DOMAIN pts}

\* A constructor that forgets to cache a new y under an x it already has.
Point_new_nostore(pts, live, x, y) ==
    LET this == Alloc(live, x, y) IN
    IF x \in DOMAIN pts
        THEN IF y \in DOMAIN pts[x]
                 THEN [ret |-> pts[x][y], points |-> pts]
                 ELSE [ret |-> this, points |-> pts]
        ELSE [ret |-> this, points |-> (x :> (y :> this)) @@ pts]

\* new Point(x, y): the cached instance of (x, y), or this one, now cached.
Point_new(pts, live, x, y) ==
    LET this == Alloc(live, x, y) IN
    IF x \in DOMAIN pts
        THEN IF y \in DOMAIN pts[x]
                 THEN [ret |-> pts[x][y], points |-> pts]
                 ELSE [ret |-> this, points |-> [pts EXCEPT ![x] = (y :> this) @@ @]]
        ELSE [ret |-> this, points |-> (x :> (y :> this)) @@ pts]

\* Point.from({x, y})
Point_from(pts, live, c) == Point_new(pts, live, c.x, c.y)

\* point.add(other)
Point_add(pts, live, this, other) ==
    Point_new(pts, live, this.x + other.x, this.y + other.y)

\* ----------------------------------------------- regions (with identity)

NullBoundingBox == [type |-> "NullBoundingBox"]
BoundingRect(origin, opposite) ==
    [type |-> "BoundingRect", origin |-> origin, opposite |-> opposite]
BoundingGroup(children) == [type |-> "BoundingGroup", children |-> children]

\* flatMap(range(origin.x, opposite.x), x => range(origin.y, opposite.y).map(y => ({x, y}))):
\* the coordinates a BoundingRect visits, x outermost.
RectCoords(origin, opposite) ==
    LET xs == range(origin.x, opposite.x)
        ys == range(origin.y, opposite.y)
    IN flatMap([i \in DOMAIN xs |-> [j \in DOMAIN ys |-> [x |-> xs[i], y |-> ys[j]]]])

\* Point.from applied to each coordinate in turn.
RECURSIVE InternAll(_, _, _)
InternAll(pts, live, coords) ==
    IF coords = <<>> THEN [ret |-> <<>>, points |-> pts]
    ELSE LET p == Point_from(pts, live, Head(coords))
             rest == InternAll(p.points, live \cup {p.ret}, Tail(coords))
         IN [ret |-> <<p.ret>> \o rest.ret, points |-> rest.points]

\* BoundingRect.pixels()
BoundingRect_pixels(pts, live, rect) ==
    InternAll(pts, live, RectCoords(rect.origin, rect.opposite))

\* NullBoundingBox.pixels()
NullBoundingBox_pixels(pts) == [ret |-> <<>>, points |-> pts]

\* child.pixels() of a BoundingRect or NullBoundingBox child
Child_pixels(pts, live, child) ==
    IF child.type = "BoundingRect" THEN BoundingRect_pixels(pts, live, child)
    ELSE NullBoundingBox_pixels(pts)

\* The children's pixels() one after the other, each seeing the cache the
\* previous one left.
RECURSIVE ChildrenPixels(_, _, _)
ChildrenPixels(pts, live, children) ==
    IF children = <<>> THEN [ret |-> <<>>, points |-> pts]
    ELSE LET c == Child_pixels(pts, live, Head(children))
             rest == ChildrenPixels(c.points, live \cup Range(c.ret), Tail(children))
         IN [ret |-> <<c.ret>> \o rest.ret, points |-> rest.points]

\* A group that keeps every child's points, repeated or not.
BoundingGroup_pixels_flatMap(pts, live, group) ==
    LET cs == ChildrenPixels(pts, live, group.children)
    IN [ret |-> flatMap(cs.ret), points |-> cs.points]

\* BoundingGroup.pixels()
BoundingGroup_pixels(pts, live, group) ==
    LET cs == ChildrenPixels(pts, live, group.children)
    IN [ret |-> flatMapUniq(cs.ret), points |-> cs.points]

\* ------------------------------------------------------- SpecGeom: calls

\* The coordinates SpecGeom constructs Points at.
Coords == [x : 0..MaxPX, y : 0..MaxPY]

\* The instances the caller of the last call still holds.
Held ==
    IF out.op \in {"new", "from", "add"} THEN {out.ret}
    ELSE IF out.op \in {"rect", "group"} THEN Range(out.ret)
    ELSE {}

Live == Cached(points) \cup Held

\* The regions a caller can build from live Points.
Rects == {BoundingRect(o, p) : o \in Live, p \in Live}
Children == Rects \cup {NullBoundingBox}

NotDrawn == [globalCompositeOperation |-> SourceOver, fillStyle |-> "#000000"]

InitGeom ==
    /\ points = <<>>
    /\ out = [op |-> "init"]
    /\ scene = <<>>
    /\ sprites = <<>>
    /\ ctx = NotDrawn
    /\ surface = <<>>
    /\ history = <<>>

NewPoint(x, y) ==
    LET r == Point_new(points, Live, x, y) IN
    /\ points' = r.points
    /\ out' = [op |-> "new", x |-> x, y |-> y, ret |-> r.ret]
    /\ UNCHANGED <<scene, sprites, ctx, surface, history>>

FromPoint(c) ==
    LET r == Point_from(points, Live, c) IN
    /\ points' = r.points
    /\ out' = [op |-> "from", x |-> c.x, y |-> c.y, ret |-> r.ret]
    /\ UNCHANGED <<scene, sprites, ctx, surface, history>>

AddPoint(this, other) ==
    LET r == Point_add(points, Live, this, other) IN
    /\ this.x + other.x <= MaxPX
    /\ this.y + other.y <= MaxPY
    /\ points' = r.points
    /\ out' = [op |-> "add", this |-> this, other |-> other, ret |-> r.ret]
    /\ UNCHANGED <<scene, sprites, ctx, surface, history>>

RectPixels(rect) ==
    LET r == BoundingRect_pixels(points, Live, rect) IN
    /\ points' = r.points
    /\ out' = [op |-> "rect", rect |-> rect, ret |-> r.ret]
    /\ UNCHANGED <<scene, sprites, ctx, surface, history>>

\* The caller groups the rect it has just queried, or an empty box, with another
\* child, as Sprite.changedPixels groups the last box with the current one.
FirstChildren ==
    {NullBoundingBox} \cup (IF out.op = "rect" THEN {out.rect} ELSE {})

GroupPixels(c1, c2) ==
    LET r == BoundingGroup_pixels(points, Live, BoundingGroup(<<c1, c2>>)) IN
    /\ points' = r.points
    /\ out' = [op |-> "group", children |-> <<c1, c2>>, ret |-> r.ret]
    /\ UNCHANGED <<scene, sprites, ctx, surface, history>>

NextGeom ==
    \/ \E x \in 0..MaxPX, y \in 0..MaxPY : NewPoint(x, y)
    \/ \E c \in Coords : FromPoint(c)
    \/ \E this \in Live, other \in Coords : AddPoint(this, other)
    \/ \E rect \in Rects : RectPixels(rect)
    \/ \E c1 \in FirstChildren, c2 \in Children : GroupPixels(c1, c2)

SpecGeom == InitGeom /\ [][NextGeom]_vars

\* ------------------------------------- regions over interned coordinates

\* In Spec a Point is represented by its coordinates: interning makes equal
\* coordinates the same instance (C9), so identity is equality of coordinates.
Pt(x, y) == [x |-> x, y |-> y]

\* point.add(other)
add(this, other) == Pt(this.x + other.x, this.y + other.y)

\* region.pixels() of a BoundingRect, a NullBoundingBox or a BoundingGroup of those
pixels(region) ==
    LET leaf(r) == IF r.type = "BoundingRect" THEN RectCoords(r.origin, r.opposite)
                   ELSE <<>>
    IN IF region.type = "BoundingGroup"
           THEN flatMapUniq([i \in DOMAIN region.children |-> leaf(region.children[i])])
           ELSE leaf(region)

\* ----------------------------------------------------------------- Sprite

\* lastBoundingBox = null
Null == [type |-> "null"]

\* A Sprite as constructed: stale, with no last bounding box.
Sprite(origin, palette, bitmap) ==
    [_origin |-> origin, palette |-> palette, pixels |-> bitmap,
     stale |-> TRUE, lastBoundingBox |-> Null]

\* array[i] of a JS array held as a sequence: undefined beyond its end.
HasIndex(array, i) == 0 <= i /\ i < Len(array)

\* A boundingBox that takes the rows for the width and the columns for the height.
Sprite_boundingBox_swapped(s) ==
    IF ~HasIndex(s.pixels, 0) THEN Throw
    ELSE Return(BoundingRect(s._origin,
                             add(s._origin, Pt(Len(s.pixels), Len(s.pixels[1])))))

\* get boundingBox: this.pixels[0].length throws when there is no row 0.
Sprite_boundingBox(s) ==
    IF ~HasIndex(s.pixels, 0) THEN Throw
    ELSE Return(BoundingRect(s._origin,
                             add(s._origin, Pt(Len(s.pixels[1]), Len(s.pixels)))))

\* A changedPixels() that reports the current box only.
Sprite_changedPixels_current(s) ==
    LET box == Sprite_boundingBox(s) IN
    IF box.threw THEN Throw ELSE Return(pixels(box.val))

\* changedPixels()
Sprite_changedPixels(s) ==
    LET box == Sprite_boundingBox(s) IN
    IF box.threw THEN Throw
    ELSE IF s.lastBoundingBox.type # "null"
        THEN Return(pixels(BoundingGroup(<<s.lastBoundingBox, box.val>>)))
        ELSE Return(pixels(box.val))

\* getPixel(x, y).  The bounds test reads pixels[0].length (the columns) for rx
\* and pixels.length (the rows) for ry; the lookup is pixels[rx][ry].
Sprite_getPixel(s, x, y) ==
    LET rx == x - s._origin.x
        ry == y - s._origin.y
    IN IF rx < 0 \/ ry < 0 THEN Return(False)
       ELSE IF ~HasIndex(s.pixels, 0) THEN Throw
       ELSE IF rx >= Len(s.pixels[1]) \/ ry >= Len(s.pixels) THEN Return(False)
       ELSE IF ~HasIndex(s.pixels, rx) THEN Throw
       ELSE LET row == s.pixels[rx + 1] IN
            IF HasIndex(row, ry) /\ row[ry + 1] \in DOMAIN s.palette
                THEN Return(s.palette[row[ry + 1]])
                ELSE Return(Undefined)

\* An origin setter that takes the snapshot after overwriting the origin.
Sprite_setOrigin_late(s, origin) ==
    LET moved == [s EXCEPT !.stale = TRUE, !._origin = origin]
        box == Sprite_boundingBox(moved)
    IN IF box.threw THEN [threw |-> TRUE, sprite |-> moved]
       ELSE [threw |-> FALSE, sprite |-> [moved EXCEPT !.lastBoundingBox = box.val]]

\* set origin(origin): stale, then the snapshot of the current box, then the origin.
Sprite_setOrigin(s, origin) ==
    LET marked == [s EXCEPT !.stale = TRUE]
        box == Sprite_boundingBox(marked)
    IN IF box.threw THEN [threw |-> TRUE, sprite |-> marked]
       ELSE [threw |-> FALSE,
             sprite |-> [marked EXCEPT !.lastBoundingBox = box.val, !._origin = origin]]

\* move(origin)
Sprite_move(s, origin) == Sprite_setOrigin(s, origin)

\* ------------------------------------------------- Layer and Background

\* A Background whose stale is a plain field that starts true, as a Sprite's.
Object_stale_field(sp, object) ==
    IF object.kind = "Background" THEN TRUE ELSE sp[object.id].stale

\* A layer's object is a Sprite (by its index in sprites) or a Background.
SpriteRef(i) == [kind |-> "Sprite", id |-> i]
Background(color) == [kind |-> "Background", color |-> color]
Layer(objects, blendMode) == [objects |-> objects, blendMode |-> blendMode]

\* object.stale
Object_stale(sp, object) ==
    IF object.kind = "Background" THEN FALSE ELSE sp[object.id].stale

\* object.changedPixels()
Object_changedPixels(sp, object) ==
    IF object.kind = "Background" THEN Return(<<>>)
    ELSE Sprite_changedPixels(sp[object.id])

\* object.getPixel(x, y)
Object_getPixel(sp, object, x, y) ==
    IF object.kind = "Background" THEN Return(object.color)
    ELSE Sprite_getPixel(sp[object.id], x, y)

\* An assignment object.stale = false that every object ignores.
Object_clearStale_noop(sp, object) == sp

\* object.stale = false: Background's setter ignores it.
Object_clearStale(sp, object) ==
    IF object.kind = "Background" THEN sp
    ELSE [sp EXCEPT ![object.id].stale = FALSE]

\* The first of a list of outcomes that threw, or the list of returned values.
Collect(outcomes) ==
    IF \E i \in DOMAIN outcomes : outcomes[i].threw THEN Throw
    ELSE Return([i \in DOMAIN outcomes |-> outcomes[i].val])

\* this.objects.filter(object => object.stale)
StaleObjects(sp, layer) == SelectSeq(layer.objects, LAMBDA object : Object_stale(sp, object))

\* Layer.changedPixels over every object, stale or not.
Layer_changedPixels_all(sp, layer) ==
    LET each == Collect([i \in DOMAIN layer.objects |->
                            Object_changedPixels(sp, layer.objects[i])])
    IN IF each.threw THEN Throw ELSE Return(flatMapUniq(each.val))

\* Layer.changedPixels()
Layer_changedPixels(sp, layer) ==
    LET stale == StaleObjects(sp, layer)
        each == Collect([i \in DOMAIN stale |-> Object_changedPixels(sp, stale[i])])
    IN IF each.threw THEN Throw ELSE Return(flatMapUniq(each.val))

\* The for...of loop of Layer.getPixel from the k-th object on.
RECURSIVE Layer_getPixelFrom(_, _, _, _, _)
Layer_getPixelFrom(sp, layer, k, x, y) ==
    IF k > Len(layer.objects) THEN [threw |-> FALSE, val |-> False, sprites |-> sp]
    ELSE LET pixel == Object_getPixel(sp, layer.objects[k], x, y) IN
         IF pixel.threw THEN [threw |-> TRUE, val |-> pixel.val, sprites |-> sp]
         ELSE IF Truthy(pixel.val)
             THEN [threw |-> FALSE, val |-> pixel.val,
                   sprites |-> Object_clearStale(sp, layer.objects[k])]
             ELSE Layer_getPixelFrom(sp, layer, k + 1, x, y)

\* A getPixel that marks every object it visits, hit or not.
Layer_getPixel_clearAll(sp, layer, x, y) ==
    LET r == Layer_getPixelFrom(sp, layer, 1, x, y) IN
    IF r.threw \/ ~Truthy(r.val) THEN r
    ELSE [r EXCEPT !.sprites =
             [i \in DOMAIN sp |->
                 IF \E k \in DOMAIN layer.objects : layer.objects[k] = SpriteRef(i)
                     THEN [sp[i] EXCEPT !.stale = FALSE] ELSE sp[i]]]

\* Layer.getPixel(x, y)
Layer_getPixel(sp, layer, x, y) == Layer_getPixelFrom(sp, layer, 1, x, y)

\* One call on the context, with the layer that made it and the state it leaves.
Call(fn, l, pt, cx) ==
    [fn |-> fn, layer |-> l, x |-> pt.x, y |-> pt.y,
     globalCompositeOperation |-> cx.globalCompositeOperation,
     fillStyle |-> cx.fillStyle]

\* A drawPixel that sets the blend mode only when the layer configures one.
Layer_drawPixel_sticky(st, l, layer, pt) ==
    LET c1 == IF Truthy(layer.blendMode)
                  THEN [st.ctx EXCEPT !.globalCompositeOperation = layer.blendMode]
                  ELSE st.ctx
        calls1 == Append(st.calls, Call("set globalCompositeOperation", l, pt, c1))
        pixel == Layer_getPixel(st.sprites, layer, pt.x, pt.y)
        c2 == [c1 EXCEPT !.fillStyle = OrElse(pixel.val, Transparent)]
    IN IF pixel.threw
           THEN [threw |-> TRUE, sprites |-> pixel.sprites, ctx |-> c1, calls |-> calls1]
           ELSE [threw |-> FALSE, sprites |-> pixel.sprites, ctx |-> c2,
                 calls |-> calls1 \o <<Call("set fillStyle", l, pt, c2),
                                       Call("fillRect", l, pt, c2)>>]

\* Layer.drawPixel(ctx, {x, y}) of the l-th layer; st is the sprites, the
\* context and the calls made on it so far.
Layer_drawPixel(st, l, layer, pt) ==
    LET c1 == [st.ctx EXCEPT
                  !.globalCompositeOperation = OrElse(layer.blendMode, SourceOver)]
        calls1 == Append(st.calls, Call("set globalCompositeOperation", l, pt, c1))
        pixel == Layer_getPixel(st.sprites, layer, pt.x, pt.y)
        c2 == [c1 EXCEPT !.fillStyle = OrElse(pixel.val, Transparent)]
    IN IF pixel.threw
           THEN [threw |-> TRUE, sprites |-> pixel.sprites, ctx |-> c1, calls |-> calls1]
           ELSE [threw |-> FALSE, sprites |-> pixel.sprites, ctx |-> c2,
                 calls |-> calls1 \o <<Call("set fillStyle", l, pt, c2),
                                       Call("fillRect", l, pt, c2)>>]

\* ----------------------------------------------------------------- Canvas

\* Canvas.changedPixels()
Canvas_changedPixels(sp, layers) ==
    LET each == Collect([l \in DOMAIN layers |-> Layer_changedPixels(sp, layers[l])])
    IN IF each.threw THEN Throw ELSE Return(flatMapUniq(each.val))

\* Canvas.drawPixel(ctx, pixel): the layers from the l-th on, until one throws.
RECURSIVE Canvas_drawPixelFrom(_, _, _, _)
Canvas_drawPixelFrom(st, layers, l, pt) ==
    IF st.threw \/ l > Len(layers) THEN st
    ELSE Canvas_drawPixelFrom(Layer_drawPixel(st, l, layers[l], pt), layers, l + 1, pt)

\* Canvas.drawPixel(ctx, pixel)
Canvas_drawPixel(st, layers, pt) == Canvas_drawPixelFrom(st, layers, 1, pt)

\* The forEach of Canvas.draw over the changed pixels, until a drawPixel throws.
RECURSIVE Canvas_drawEach(_, _, _)
Canvas_drawEach(st, layers, changed) ==
    IF st.threw \/ changed = <<>> THEN st
    ELSE Canvas_drawEach(Canvas_drawPixel(st, layers, Head(changed)), layers, Tail(changed))

\* A draw that repaints everything the canvas holds, changed or not.
Canvas_draw_everything(sp, cx, layers) ==
    LET changed == Canvas_changedPixels(sp, layers)
        all == flatMapUniq([l \in DOMAIN layers |->
                   Layer_changedPixels_all(sp, layers[l]).val])
        st == [threw |-> FALSE, sprites |-> sp, ctx |-> cx, calls |-> <<>>]
    IN IF changed.threw THEN [st EXCEPT !.threw = TRUE] @@ [changed |-> <<>>]
       ELSE Canvas_drawEach(st, layers, all) @@ [changed |-> changed.val]

\* A draw whose changed-pixel query clears the flag of every sprite it asked.
Canvas_draw_eager(sp, cx, layers) ==
    LET changed == Canvas_changedPixels(sp, layers)
        asked == [i \in DOMAIN sp |-> [sp[i] EXCEPT !.stale = FALSE]]
        st == [threw |-> FALSE, sprites |-> asked, ctx |-> cx, calls |-> <<>>]
    IN IF changed.threw THEN [st EXCEPT !.threw = TRUE] @@ [changed |-> <<>>]
       ELSE Canvas_drawEach(st, layers, changed.val) @@ [changed |-> changed.val]

\* Canvas.draw(ctx): the changed pixels are computed first, then each is drawn.
Canvas_draw(sp, cx, layers) ==
    LET changed == Canvas_changedPixels(sp, layers)
        st == [threw |-> FALSE, sprites |-> sp, ctx |-> cx, calls |-> <<>>]
    IN IF changed.threw THEN [st EXCEPT !.threw = TRUE] @@ [changed |-> <<>>]
       ELSE Canvas_drawEach(st, layers, changed.val) @@ [changed |-> changed.val]

\* ------------------------------------------------------------ Spec: scenes

\* Bitmaps: rows of palette indices.
Square == <<<<1, 0>>, <<1, 1>>>>
Wide == <<<<1, 1>>>>
Tall == <<<<1>>, <<1>>>>
Dot == <<<<1>>>>
Empty == <<>>

\* Palettes.  The source's circles map 0 to '#000'; a palette without 0 leaves
\* those cells transparent.
Red == (0 :> "#000") @@ (1 :> "#FF0000")
Green == (0 :> "#000") @@ (1 :> "#00FF00")
GreenOnly == (1 :> "#00FF00")
RedOnly == (1 :> "#FF0000")
Clear == (0 :> False) @@ (1 :> False)

\* The canvases checked, each with the bitmaps and palettes of its two sprites
\* and the sprite its tick handler moves: the source's scene (a Background, a
\* sprite, a moving sprite on a 'lighter' layer), two sprites sharing a layer,
\* bitmaps that are not square, the base Sprite class's empty bitmap, and a
\* sprite behind a Background in its own layer under a sprite whose palette
\* entries are all transparent.
Scenes ==
    { [layers |-> <<Layer(<<Background("#000")>>, False),
                    Layer(<<SpriteRef(1)>>, False),
                    Layer(<<SpriteRef(2)>>, "lighter")>>,
       bitmaps |-> <<Square, Square>>, palettes |-> <<Red, GreenOnly>>, moving |-> 2],
      [layers |-> <<Layer(<<SpriteRef(1), SpriteRef(2)>>, False)>>,
       bitmaps |-> <<Square, Square>>, palettes |-> <<RedOnly, Green>>, moving |-> 2],
      [layers |-> <<Layer(<<SpriteRef(1)>>, False),
                    Layer(<<SpriteRef(2)>>, "lighter")>>,
       bitmaps |-> <<Wide, Tall>>, palettes |-> <<Red, Green>>, moving |-> 1],
      [layers |-> <<Layer(<<SpriteRef(1), SpriteRef(2)>>, False)>>,
       bitmaps |-> <<Dot, Empty>>, palettes |-> <<Red, Green>>, moving |-> 2],
      [layers |-> <<Layer(<<Background("#000"), SpriteRef(1)>>, False),
                    Layer(<<SpriteRef(2)>>, "lighter")>>,
       bitmaps |-> <<Dot, Dot>>, palettes |-> <<Red, Clear>>, moving |-> 2] }

\* The origins the driver places sprites at.
Origins == {Pt(x, y) : x \in 0..MaxX, y \in 0..MaxY}

\* The coordinates getPixel is asked for.
Asked == Origins

\* The coordinates getPixel is probed at: around and inside every box.
Probes == {Pt(x, y) : x \in (0 - 1)..(MaxX + 2), y \in (0 - 1)..(MaxY + 2)}

\* The canvas and its sprites as constructed, at any origins.
Init ==
    /\ points = <<>>
    /\ \E sc \in Scenes :
           /\ scene = [layers |-> sc.layers, moving |-> sc.moving]
           /\ \E o1 \in Origins, o2 \in Origins :
                  sprites = <<Sprite(o1, sc.palettes[1], sc.bitmaps[1]),
                              Sprite(o2, sc.palettes[2], sc.bitmaps[2])>>
    /\ ctx = NotDrawn
    /\ out = [op |-> "new"]
    /\ surface = <<>>
    /\ history = <<>>

\* The tick handler's circle.move(new Point(...)).
Move(origin) ==
    LET i == scene.moving
        r == Sprite_move(sprites[i], origin)
    IN /\ sprites' = [sprites EXCEPT ![i] = r.sprite]
       /\ out' = [op |-> "move", sprite |-> i, from |-> sprites[i]._origin,
                  to |-> origin, threw |-> r.threw]
       /\ UNCHANGED <<points, scene, ctx, surface, history>>

\* The tick handler's layer.draw(ctx).
Draw ==
    LET r == Canvas_draw(sprites, ctx, scene.layers) IN
    /\ sprites' = r.sprites
    /\ ctx' = r.ctx
    /\ out' = [op |-> "draw", pre |-> sprites, changed |-> r.changed,
               calls |-> r.calls, threw |-> r.threw]
    /\ UNCHANGED <<points, scene, surface, history>>

\* layer.getPixel(x, y) called on its own.
GetPixel(l, pt) ==
    LET r == Layer_getPixel(sprites, scene.layers[l], pt.x, pt.y) IN
    /\ sprites' = r.sprites
    /\ out' = [op |-> "getPixel", threw |-> r.threw, ret |-> r.val]
    /\ UNCHANGED <<points, scene, ctx, surface, history>>

Next ==
    \/ \E origin \in Origins : Move(origin)
    \/ Draw
    \/ \E l \in DOMAIN scene.layers, pt \in Asked : GetPixel(l, pt)

Spec == Init /\ [][Next]_vars

\* ------------------------------------------------- SpecFrames: the surface

\* The most moves of one sprite the driver makes between two draws.
MaxMoves == 2

\* A pixel of the canvas element nothing was filled on.
Unpainted == "unpainted"

\* What the 2d context leaves at a pixel holding colour d when it fills it with
\* colour c under the blend mode: a fill with 'transparent' adds nothing under
\* either mode, 'source-over' replaces with an opaque colour, 'lighter' adds the
\* channels (each 00 or FF here) and saturates.
Blend(mode, d, c) ==
    IF c = Transparent THEN (IF d = Unpainted THEN Transparent ELSE d)
    ELSE IF mode # "lighter" THEN c
    ELSE IF d \in {Unpainted, Transparent, "#000"} THEN c
    ELSE IF c = "#000" \/ c = d THEN d
    ELSE "#FFFF00"

\* The surface after the fillRect calls among a draw's calls, in order.
RECURSIVE Paint(_, _)
Paint(sf, calls) ==
    IF calls = <<>> THEN sf
    ELSE LET c == Head(calls)
             p == Pt(c.x, c.y)
         IN IF c.fn = "fillRect"
                THEN Paint([sf EXCEPT ![p] =
                               Blend(c.globalCompositeOperation, sf[p], c.fillStyle)],
                           Tail(calls))
                ELSE Paint(sf, Tail(calls))

\* The scenes whose bottom layer holds an opaque Background.
FrameScenes ==
    {sc \in Scenes : \E k \in DOMAIN sc.layers[1].objects :
                         sc.layers[1].objects[k].kind = "Background"}

\* A scene as constructed on a canvas element nothing was drawn on.
InitFrames ==
    /\ points = <<>>
    /\ \E sc \in FrameScenes :
           /\ scene = [layers |-> sc.layers, moving |-> sc.moving]
           /\ \E o1 \in Origins, o2 \in Origins :
                  sprites = <<Sprite(o1, sc.palettes[1], sc.bitmaps[1]),
                              Sprite(o2, sc.palettes[2], sc.bitmaps[2])>>
    /\ ctx = NotDrawn
    /\ out = [op |-> "new"]
    /\ surface = [p \in Probes |-> Unpainted]
    /\ history = [drawn |-> <<>>, moves |-> <<0, 0>>, once |-> TRUE]

\* sprite.move(new Point(...)) of either sprite, before the frame's draw.  The
\* driver moves a sprite up to MaxMoves times in a frame, and makes no further
\* move once a frame had a sprite moved more than once.
FrameMove(i, origin) ==
    LET r == Sprite_move(sprites[i], origin) IN
    /\ history.moves[i] < MaxMoves
    /\ history.once
    /\ sprites' = [sprites EXCEPT ![i] = r.sprite]
    /\ out' = [op |-> "move", sprite |-> i, from |-> sprites[i]._origin,
               to |-> origin, threw |-> r.threw]
    /\ history' = [history EXCEPT !.moves[i] = @ + 1,
                                  !.once = @ /\ history.moves[i] = 0]
    /\ UNCHANGED <<points, scene, ctx, surface>>

\* layer.draw(ctx) onto the canvas element.
FrameDraw ==
    LET r == Canvas_draw(sprites, ctx, scene.layers) IN
    /\ sprites' = r.sprites
    /\ ctx' = r.ctx
    /\ out' = [op |-> "draw", pre |-> sprites, changed |-> r.changed,
               threw |-> r.threw]
    /\ surface' = Paint(surface, r.calls)
    /\ history' = [history EXCEPT
                      !.drawn = [i \in DOMAIN sprites |-> sprites[i]._origin],
                      !.moves = <<0, 0>>]
    /\ UNCHANGED <<points, scene>>

NextFrames ==
    \/ \E i \in DOMAIN sprites, origin \in Origins : FrameMove(i, origin)
    \/ FrameDraw

SpecFrames == InitFrames /\ [][NextFrames]_vars

\* ---------------------------------------------------- SpecGeom: claims

\* The coordinates of a list of Point instances.
CoordsOf(list) == {[x |-> list[i].x, y |-> list[i].y] : i \in DOMAIN list}

\* No two entries of a list have the same coordinates.
EachOnce(list) == Cardinality(CoordsOf(list)) = Len(list)

\* The instance the cache holds for (x, y), if any.
Interned(x, y) ==
    IF x \in DOMAIN points
        THEN (IF y \in DOMAIN points[x] THEN {points[x][y]} ELSE {})
        ELSE {}

\* C7: BoundingGroup.pixels() is the set union of its children's pixels(), no
\* point appears in it more than once, and a group of twice the same child has
\* as many points as the child.
C7_GroupIsUnion ==
    out.op = "group" =>
        LET c1 == Child_pixels(points, Live, out.children[1]).ret
            c2 == Child_pixels(points, Live, out.children[2]).ret
        IN /\ CoordsOf(out.ret) = CoordsOf(c1) \cup CoordsOf(c2)
           /\ EachOnce(out.ret)
           /\ out.children[1] = out.children[2] => Len(out.ret) = Len(c1)

\* A group of two overlapping, different rects of two points each has been queried.
C7_Witness ==
    /\ out.op = "group"
    /\ out.children[1] # NullBoundingBox
    /\ out.children[2] # NullBoundingBox
    /\ out.children[1] # out.children[2]
    /\ Len(out.ret) = 3
    /\ LET c1 == Child_pixels(points, Live, out.children[1]).ret
           c2 == Child_pixels(points, Live, out.children[2]).ret
       IN Len(c1) = 2 /\ Len(c2) = 2

\* C8 (as claimed): BoundingRect.pixels() yields exactly the points with
\* origin.x <= x < opposite.x and origin.y <= y < opposite.y, each once, and the
\* empty sequence whenever origin.x >= opposite.x or origin.y >= opposite.y.
C8_RectHalfOpen ==
    out.op = "rect" =>
        LET o == out.rect.origin
            p == out.rect.opposite
        IN /\ CoordsOf(out.ret) =
                  {c \in Coords : o.x <= c.x /\ c.x < p.x /\ o.y <= c.y /\ c.y < p.y}
           /\ EachOnce(out.ret)
           /\ (o.x >= p.x \/ o.y >= p.y) => out.ret = <<>>

\* C9, the state part: the cache maps (x, y) to a Point with fields x and y;
\* every Point a caller holds is the cached instance of its coordinates; new,
\* from and add return the cached instance of the coordinates asked for.
C9_Canonical ==
    /\ \A x \in DOMAIN points : \A y \in DOMAIN points[x] :
           points[x][y].x = x /\ points[x][y].y = y
    /\ \A p \in Held : p \in Interned(p.x, p.y)
    /\ out.op \in {"new", "from"} => out.ret \in Interned(out.x, out.y)
    /\ out.op = "add" =>
           out.ret \in Interned(out.this.x + out.other.x, out.this.y + out.other.y)

\* C9, the step part: a cached instance is never replaced or dropped.
C9_Stable ==
    \A x \in DOMAIN points : \A y \in DOMAIN points[x] :
        /\ x \in DOMAIN points'
        /\ y \in DOMAIN points'[x]
        /\ points'[x][y] = points[x][y]

\* C9: after any sequence of constructions, equal coordinates give the same
\* instance and different coordinates different instances; the cache never
\* maps a coordinate pair to a Point with other coordinates; add returns the
\* interned Point of the componentwise sum.
C9_Interning == []C9_Canonical /\ [][C9_Stable]_vars

\* add of (0, 0) has returned the very instance it was called on, with a second
\* Point of the same x cached beside it.
C9_Witness ==
    /\ out.op = "add"
    /\ out.other = [x |-> 0, y |-> 0]
    /\ out.ret = out.this
    /\ Cardinality(DOMAIN points[out.this.x]) > 1

\* -------------------------------------------------------- Spec: claims

\* The coordinates of the half-open rectangle from origin, w wide and h high.
Box(origin, w, h) ==
    {Pt(x, y) : x \in origin.x..(origin.x + w - 1), y \in origin.y..(origin.y + h - 1)}

\* The columns and rows of a bitmap that has a row 0.
Columns(s) == Len(s.pixels[1])
Rows(s) == Len(s.pixels)

\* The coordinates a BoundingRect spans, as a set.
Span(rect) ==
    {Pt(x, y) : x \in rect.origin.x..(rect.opposite.x - 1),
                y \in rect.origin.y..(rect.opposite.y - 1)}

\* No element of a list is repeated.
Distinct(list) == Cardinality(Range(list)) = Len(list)

\* The fillRect calls among the calls of a draw.
Fills(calls) == SelectSeq(calls, LAMBDA c : c.fn = "fillRect")

\* C1: a draw() that starts with exactly one stale sprite, which has been moved,
\* fills only coordinates inside the union of that sprite's old and new
\* bounding boxes.
C1_FillsInsideDelta ==
    out.op = "draw" =>
        \A i \in DOMAIN out.pre :
            ( /\ out.pre[i].stale
              /\ out.pre[i].lastBoundingBox.type = "BoundingRect"
              /\ \A j \in DOMAIN out.pre : j # i => ~out.pre[j].stale )
            => \A k \in DOMAIN out.calls :
                   out.calls[k].fn = "fillRect" =>
                       Pt(out.calls[k].x, out.calls[k].y) \in
                           Span(out.pre[i].lastBoundingBox)
                           \cup Box(out.pre[i]._origin, Columns(out.pre[i]),
                                    Rows(out.pre[i]))

\* A draw of the three-layer scene after its top sprite alone moved one pixel
\* along the diagonal, the other sprite resting elsewhere: 7 points, 3 fills each.
C1_Witness ==
    /\ out.op = "draw"
    /\ Len(scene.layers) = 3
    /\ ~out.pre[1].stale
    /\ out.pre[1]._origin = Pt(0, 1)
    /\ out.pre[2].stale
    /\ out.pre[2].lastBoundingBox = BoundingRect(Pt(0, 0), Pt(2, 2))
    /\ out.pre[2]._origin = Pt(1, 1)
    /\ Len(Fills(out.calls)) = 21

\* C2: after move(newOrigin) from origin o has returned, the sprite is stale,
\* its origin is newOrigin, its last box is the box at o, and changedPixels()
\* lists exactly the union of the boxes at o and at newOrigin, each point once.
C2_MoveDelta ==
    (out.op = "move" /\ ~out.threw) =>
        LET s == sprites[out.sprite]
            changed == Sprite_changedPixels(s)
        IN /\ s.stale
           /\ s._origin = out.to
           /\ s.lastBoundingBox =
                  BoundingRect(out.from, Pt(out.from.x + Columns(s), out.from.y + Rows(s)))
           /\ ~changed.threw
           /\ Range(changed.val) = Box(out.from, Columns(s), Rows(s))
                                   \cup Box(out.to, Columns(s), Rows(s))
           /\ Distinct(changed.val)

\* A 2x2 sprite has moved from (0, 0) to (1, 1): the boxes share one point.
C2_Witness ==
    /\ out.op = "move"
    /\ ~out.threw
    /\ out.from = Pt(0, 0)
    /\ out.to = Pt(1, 1)
    /\ sprites[out.sprite].pixels = Square
    /\ Len(Sprite_changedPixels(sprites[out.sprite]).val) = 7

\* C3: as constructed every sprite is stale and has no last bounding box, and a
\* sprite that has no last bounding box reports as changed exactly the points of
\* its own box Rect(origin, origin + (columns, rows)), each once.
C3_Bootstrap ==
    /\ out.op = "new" =>
           \A i \in DOMAIN sprites :
               sprites[i].stale /\ sprites[i].lastBoundingBox = Null
    /\ \A i \in DOMAIN sprites :
           (sprites[i].lastBoundingBox = Null /\ HasIndex(sprites[i].pixels, 0)) =>
               LET changed == Sprite_changedPixels(sprites[i]) IN
               /\ ~changed.threw
               /\ Range(changed.val) =
                      Box(sprites[i]._origin, Columns(sprites[i]), Rows(sprites[i]))
               /\ Distinct(changed.val)

\* A newly constructed 1-row, 2-column sprite at (1, 1) reports its two points.
C3_Witness ==
    /\ out.op = "new"
    /\ sprites[1].pixels = Wide
    /\ sprites[1]._origin = Pt(1, 1)
    /\ Sprite_changedPixels(sprites[1]).val = <<Pt(1, 1), Pt(2, 1)>>

\* C4: Layer.changedPixels() is the union, without repetition, of
\* changedPixels() over exactly the layer's stale objects (and throws exactly
\* when one of those throws); an object that is not stale contributes nothing.
C4_StaleOnly ==
    \A l \in DOMAIN scene.layers :
        LET layer == scene.layers[l]
            stale == {k \in DOMAIN layer.objects : Object_stale(sprites, layer.objects[k])}
            each == [k \in stale |-> Object_changedPixels(sprites, layer.objects[k])]
            changed == Layer_changedPixels(sprites, layer)
        IN IF \E k \in stale : each[k].threw THEN changed.threw
           ELSE /\ ~changed.threw
                /\ Range(changed.val) = UNION {Range(each[k].val) : k \in stale}
                /\ Distinct(changed.val)

\* A layer holds a sprite that is not stale and a moved, stale sprite whose
\* changed points do not cover the first sprite's box.
C4_Witness ==
    /\ Len(scene.layers) = 1
    /\ ~sprites[1].stale
    /\ sprites[2].stale
    /\ sprites[2].lastBoundingBox.type = "BoundingRect"
    /\ sprites[1].pixels = Square
    /\ sprites[2].pixels = Square
    /\ ~(Box(sprites[1]._origin, 2, 2) \subseteq
             Range(Layer_changedPixels(sprites, scene.layers[1]).val))

\* What C5 says of one call layer.getPixel(pt.x, pt.y) on the l-th layer.
C5_Post(l, pt) ==
    LET objects == scene.layers[l].objects
        each == [k \in DOMAIN objects |-> Object_getPixel(sprites, objects[k], pt.x, pt.y)]
        hits == {k \in DOMAIN objects : ~each[k].threw /\ Truthy(each[k].val)}
        threw(before) == \E k \in DOMAIN objects : k < before /\ each[k].threw
    IN IF hits # {}
           THEN LET first == CHOOSE k \in hits : \A j \in hits : k <= j IN
                IF threw(first) THEN out'.threw /\ sprites' = sprites
                ELSE /\ ~out'.threw
                     /\ out'.ret = each[first].val
                     /\ \A i \in DOMAIN sprites :
                            IF objects[first] = SpriteRef(i)
                                THEN sprites'[i] = [sprites[i] EXCEPT !.stale = FALSE]
                                ELSE sprites'[i] = sprites[i]
           ELSE IF threw(Len(objects) + 1) THEN out'.threw /\ sprites' = sprites
           ELSE ~out'.threw /\ out'.ret = False /\ sprites' = sprites

\* C5: Layer.getPixel returns the colour of the first object in list order whose
\* getPixel is truthy and clears only that object's stale flag; every other
\* object keeps its flag; with no such object it returns false and changes no flag.
C5_FirstHitOnly ==
    [][out'.op = "getPixel" =>
           \A l \in DOMAIN scene.layers, pt \in Asked :
               GetPixel(l, pt) => C5_Post(l, pt)]_vars

\* getPixel has returned the first sprite's colour and cleared its flag while the
\* second sprite of the layer, stale and opaque at every cell of the same box,
\* is still stale.
C5_Witness ==
    /\ out.op = "getPixel"
    /\ Len(scene.layers) = 1
    /\ sprites[1].pixels = Square
    /\ sprites[2].pixels = Square
    /\ sprites[1]._origin = sprites[2]._origin
    /\ out.ret = "#FF0000"
    /\ ~sprites[1].stale
    /\ sprites[2].stale

\* C6 (as claimed): one draw() issues, for every point of Canvas.changedPixels()
\* as it was when the draw began, exactly one fill per layer in the layers' order,
\* and no point is visited twice.
C6_OneFillPerLayer ==
    out.op = "draw" =>
        LET fills == Fills(out.calls)
            n == Len(scene.layers)
            changed == Canvas_changedPixels(out.pre, scene.layers)
        IN IF changed.threw THEN fills = <<>>
           ELSE /\ Distinct(changed.val)
                /\ Len(fills) = Len(changed.val) * n
                /\ \A j \in DOMAIN changed.val : \A l \in 1..n :
                       LET c == fills[(j - 1) * n + l] IN
                       c.layer = l /\ Pt(c.x, c.y) = changed.val[j]

\* C10 (as claimed): for every (x, y) inside the bounding box of a sprite whose
\* bitmap has rows and columns, getPixel(x, y) returns without fault the palette
\* entry of the cell at column x - origin.x of row y - origin.y.
C10_CellOfBox ==
    \A i \in DOMAIN sprites :
        HasIndex(sprites[i].pixels, 0) =>
            \A pt \in Box(sprites[i]._origin, Columns(sprites[i]), Rows(sprites[i])) :
                LET s == sprites[i]
                    cell == s.pixels[(pt.y - s._origin.y) + 1][(pt.x - s._origin.x) + 1]
                    got == Sprite_getPixel(s, pt.x, pt.y)
                IN /\ ~got.threw
                   /\ got.val = IF cell \in DOMAIN s.palette THEN s.palette[cell]
                                ELSE Undefined

\* The coordinates of a sprite's bounding box Rect(origin, origin + (columns,
\* rows)); a bitmap of zero rows has the zero-area box.
Covered(s) ==
    IF HasIndex(s.pixels, 0) THEN Box(s._origin, Columns(s), Rows(s)) ELSE {}

\* C11 (as claimed): for every sprite and every (x, y) outside its bounding box,
\* getPixel(x, y) returns false and raises no error.
C11_OutsideIsFalse ==
    \A i \in DOMAIN sprites :
        \A pt \in Probes \ Covered(sprites[i]) :
            Sprite_getPixel(sprites[i], pt.x, pt.y) = Return(False)

\* C12 (as claimed): a sprite whose bitmap has zero rows has the bounding box
\* Rect(origin, origin), no changed pixels, a getPixel that completes at every
\* coordinate and a move that completes.
C12_EmptyNoFault ==
    \A i \in DOMAIN sprites :
        sprites[i].pixels = <<>> =>
            /\ Sprite_boundingBox(sprites[i]) =
                   Return(BoundingRect(sprites[i]._origin, sprites[i]._origin))
            /\ Sprite_changedPixels(sprites[i]) = Return(<<>>)
            /\ \A pt \in Probes : ~Sprite_getPixel(sprites[i], pt.x, pt.y).threw
            /\ (out.op = "move" /\ out.sprite = i) => ~out.threw

\* C13: a Background's stale reads false in every reachable state, also after
\* Layer.getPixel has assigned to it; its changedPixels() is empty; a layer
\* holding only Backgrounds has no changed pixels; and Background.getPixel
\* returns its colour at every coordinate.
C13_Background ==
    \A l \in DOMAIN scene.layers :
        LET objects == scene.layers[l].objects IN
        /\ \A k \in DOMAIN objects :
               objects[k].kind = "Background" =>
                   /\ ~Object_stale(sprites, objects[k])
                   /\ ~Object_stale(Object_clearStale(sprites, objects[k]), objects[k])
                   /\ Object_clearStale(sprites, objects[k]) = sprites
                   /\ Object_changedPixels(sprites, objects[k]) = Return(<<>>)
                   /\ \A pt \in Probes :
                          Object_getPixel(sprites, objects[k], pt.x, pt.y)
                              = Return(objects[k].color)
        /\ (\A k \in DOMAIN objects : objects[k].kind = "Background") =>
               /\ Layer_changedPixels(sprites, scene.layers[l]) = Return(<<>>)
               /\ out.op = "draw" =>
                      \A c \in Range(Fills(out.calls)) :
                          c.layer = l => c.fillStyle = objects[1].color

\* A draw has resolved seven points through the Background's layer, each of
\* them assigning to the Background's stale and filling with its colour.
C13_Witness ==
    /\ out.op = "draw"
    /\ Len(scene.layers) = 3
    /\ scene.layers[1].objects = <<Background("#000")>>
    /\ Cardinality({k \in DOMAIN out.calls :
                       /\ out.calls[k].fn = "fillRect"
                       /\ out.calls[k].layer = 1
                       /\ out.calls[k].fillStyle = "#000"}) = 7

\* The objects of a layer that Layer.getPixel(pt) returns the colour of: the
\* first in list order whose getPixel is truthy, no earlier one having thrown.
FirstHit(sp, layer, pt) ==
    LET each == [k \in DOMAIN layer.objects |->
                    Object_getPixel(sp, layer.objects[k], pt.x, pt.y)]
    IN {layer.objects[k] : k \in
           {k \in DOMAIN layer.objects :
               /\ ~each[k].threw
               /\ Truthy(each[k].val)
               /\ \A j \in DOMAIN layer.objects :
                      j < k => ~each[j].threw /\ ~Truthy(each[j].val)}}

\* C14: when a draw() returns, every sprite that was stale when it began and is
\* the first object of some layer with a non-transparent colour at one or more
\* points of its own changedPixels() is no longer stale, and every sprite that
\* was not stale when it began is still not stale.
C14_DrawClears ==
    (out.op = "draw" /\ ~out.threw) =>
        \A i \in DOMAIN sprites :
            LET changed == Sprite_changedPixels(out.pre[i]) IN
            /\ ( /\ out.pre[i].stale
                 /\ ~changed.threw
                 /\ \E pt \in Range(changed.val) : \E l \in DOMAIN scene.layers :
                        SpriteRef(i) \in FirstHit(out.pre, scene.layers[l], pt) )
               => ~sprites[i].stale
            /\ ~out.pre[i].stale => ~sprites[i].stale

\* A draw has returned that began with a moved, stale top sprite and a resting
\* sprite that was not stale, and ended with neither of them stale.
C14_Witness ==
    /\ out.op = "draw"
    /\ ~out.threw
    /\ Len(scene.layers) = 3
    /\ ~out.pre[1].stale
    /\ out.pre[2].stale
    /\ out.pre[2].lastBoundingBox.type = "BoundingRect"
    /\ ~sprites[1].stale
    /\ ~sprites[2].stale

\* C15 (as claimed): in the state a returned draw() leaves, before any sprite
\* is moved, every layer's changedPixels() is empty, whatever the layer holds.
C15_QuietAfterDraw ==
    (out.op = "draw" /\ ~out.threw) =>
        \A l \in DOMAIN scene.layers :
            Layer_changedPixels(sprites, scene.layers[l]) = Return(<<>>)

\* The positions in a draw's calls at which the blend mode is set to 'lighter'.
SetsLighter(calls) ==
    {k \in DOMAIN calls : /\ calls[k].fn = "set globalCompositeOperation"
                          /\ calls[k].globalCompositeOperation = "lighter"}

\* C16 (as claimed): in one draw() of the scene of a Background layer, a normal
\* layer and a 'lighter' top layer, the blend mode is set to 'lighter' exactly
\* once, before every fill of the top layer.
C16_LighterOnce ==
    ( /\ out.op = "draw"
      /\ Len(scene.layers) = 3
      /\ \E k \in DOMAIN out.calls :
             out.calls[k].fn = "fillRect" /\ out.calls[k].layer = 3 )
    => /\ Cardinality(SetsLighter(out.calls)) = 1
       /\ \A s \in SetsLighter(out.calls) : \A k \in DOMAIN out.calls :
              (out.calls[k].fn = "fillRect" /\ out.calls[k].layer = 3) => s < k

\* What C17 allows one step to do to the i-th sprite.
C17_Step(i) ==
    /\ ( \/ sprites'[i]._origin # sprites[i]._origin
         \/ sprites'[i].lastBoundingBox # sprites[i].lastBoundingBox
         \/ (sprites'[i].stale /\ ~sprites[i].stale) )
       => (out'.op = "move" /\ out'.sprite = i)
    /\ (sprites[i].stale /\ ~sprites'[i].stale) =>
           \/ out'.op = "getPixel"
           \/ /\ out'.op = "draw"
              /\ \E k \in DOMAIN out'.changed : \E l \in DOMAIN scene.layers :
                     SpriteRef(i) \in FirstHit(sprites, scene.layers[l], out'.changed[k])
    /\ out'.op = "draw" =>
           /\ out'.pre = sprites
           /\ LET again == Canvas_changedPixels(sprites, scene.layers) IN
              IF again.threw THEN out'.threw /\ sprites' = sprites
              ELSE out'.changed = again.val

\* C17: the changed-pixel queries change no sprite's origin, stale flag or last
\* bounding box: a step changes an origin or a last bounding box, or sets a
\* flag, only as the move of that sprite; it clears a flag only in
\* Layer.getPixel, called directly or by a draw at a changed point where the
\* sprite is its layer's first hit; and the query a draw starts with finds the
\* sprites as they were and throws or lists without altering them.
C17_QueriesPure == [][\A i \in DOMAIN sprites : C17_Step(i)]_vars

\* A draw has queried and resolved the two changed points of a moved sprite
\* without clearing any flag: both sprites are exactly as they were, stale.
C17_Witness ==
    /\ out.op = "draw"
    /\ Len(out.changed) = 2
    /\ sprites = out.pre
    /\ \A i \in DOMAIN sprites : sprites[i].stale
    /\ sprites[2].lastBoundingBox.type = "BoundingRect"

\* C20: every fill of a draw is made with the context's blend mode equal to the
\* filling layer's blendMode, or to 'source-over' when that is falsy, whatever
\* mode the layer before it left; and where no object of the layer has a
\* colour the fill style is 'transparent', otherwise the first hit's colour.
C20_OwnBlendMode ==
    out.op = "draw" =>
        \A k \in DOMAIN out.calls :
            out.calls[k].fn = "fillRect" =>
                LET c == out.calls[k]
                    layer == scene.layers[c.layer]
                    hit == FirstHit(out.pre, layer, Pt(c.x, c.y))
                IN /\ c.globalCompositeOperation = OrElse(layer.blendMode, SourceOver)
                   /\ hit = {} => c.fillStyle = Transparent
                   /\ \A object \in hit :
                          c.fillStyle =
                              Object_getPixel(out.pre, object, c.x, c.y).val

\* In one draw the 'lighter' layer has filled a point none of its objects
\* covers with 'transparent', and right after it the Background's layer has
\* filled the next point under 'source-over'.
C20_Witness ==
    /\ out.op = "draw"
    /\ Len(scene.layers) = 3
    /\ \E k \in DOMAIN out.calls :
           /\ out.calls[k].fn = "fillRect"
           /\ out.calls[k].layer = 3
           /\ out.calls[k].globalCompositeOperation = "lighter"
           /\ out.calls[k].fillStyle = Transparent
           /\ k + 3 \in DOMAIN out.calls
           /\ out.calls[k + 3].fn = "fillRect"
           /\ out.calls[k + 3].layer = 1
           /\ out.calls[k + 3].globalCompositeOperation = SourceOver

\* The colour a full redraw leaves at p: the layers composited bottom to top
\* from the layer l on over the colour d, each layer giving its first hit's
\* colour (or 'transparent') under its blend mode.
RECURSIVE CompositeFrom(_, _, _, _, _)
CompositeFrom(sp, layers, l, d, p) ==
    IF l > Len(layers) THEN d
    ELSE LET pixel == Layer_getPixel(sp, layers[l], p.x, p.y) IN
         CompositeFrom(sp, layers, l + 1,
                       Blend(OrElse(layers[l].blendMode, SourceOver), d,
                             OrElse(pixel.val, Transparent)),
                       p)

Composite(sp, layers, p) == CompositeFrom(sp, layers, 1, Unpainted, p)

\* C18: over an opaque Background, after any sequence of frames in each of
\* which every sprite was moved at most once before the draw, the surface holds
\* at every coordinate ever filled the colour that compositing all layers at
\* the current sprite positions gives.
C18_IncrementalIsFull ==
    (out.op = "draw" /\ ~out.threw /\ history.once) =>
        \A p \in Probes :
            surface[p] # Unpainted => surface[p] = Composite(sprites, scene.layers, p)

\* A later frame has moved the additive sprite, drawn at (0, 0) the frame
\* before, onto the resting sprite at (1, 1): the vacated corner is black again
\* and the shared cell holds the sum of the two colours.
C18_Witness ==
    /\ out.op = "draw"
    /\ ~out.threw
    /\ history.once
    /\ ~out.pre[1].stale
    /\ out.pre[1]._origin = Pt(1, 1)
    /\ out.pre[2].stale
    /\ out.pre[2].lastBoundingBox = BoundingRect(Pt(0, 0), Pt(2, 2))
    /\ out.pre[2]._origin = Pt(1, 1)
    /\ surface[Pt(0, 0)] = "#000"
    /\ surface[Pt(1, 1)] = "#FFFF00"

\* C19 (as claimed): however many times a sprite was moved since the last
\* draw(), every coordinate of the box it had at that draw is in
\* Canvas.changedPixels() of the next draw.
C19_OldBoxRedrawn ==
    [][(out'.op = "draw" /\ history.drawn # <<>>) =>
           \A i \in DOMAIN sprites :
               history.moves[i] >= 1 =>
                   Box(history.drawn[i], Columns(sprites[i]), Rows(sprites[i]))
                       \subseteq Range(out'.changed)]_vars

====
